---- MODULE Spec2Model ----
(***************************************************************************)
(* ShortTrapBuster.run (src/short_trap_buster.py): the per-symbol          *)
(* short-trap state machine, its buy path (bracket + sizing) and its sell  *)
(* path.                                                                   *)
(*                                                                         *)
(* Units.  Prices that the code holds as floats are integers here:         *)
(*   - bar prices and the 3-decimal vwap series are in mills (1/1000),     *)
(*   - stop_prices / target_prices (rounded to 2 decimals) are in cents,   *)
(*   - portfolio_value is in whole currency units.                         *)
(* The results of the library calls the method makes (resample,            *)
(* add_daily_vwap, MACD, anchored_vwap, get_series_trend, is_buy_time,     *)
(* is_sell_time, get_account) are arguments of the invocation: the         *)
(* platform supplies the bars, the libraries are functions of them.        *)
(***************************************************************************)
EXTENDS Integers, Sequences, FiniteSets, TLC

VARIABLES was_above_vwap, potential_trap, trap_start_time,
          stop_prices, target_prices, entered,
          clock, pc, inv, pre, ret,
          again, first, task

\* again: the invocation in progress repeats the previous one, argument for
\* argument; first: what that previous one did; task: the coroutines of
\* run(), one per symbol, when invocations overlap
aux == <<again, first, task>>

vars == <<was_above_vwap, potential_trap, trap_start_time,
          stop_prices, target_prices, entered, clock, pc, inv, pre, ret,
          aux>>

---------------------------------------------------------------------------
(* Bounds and program constants *)

\* number of run() invocations a behaviour holds; `now` of the k-th is k
MaxTime == 4

Symbols == {"A", "B"}

\* trap_start_time has no entry for the symbol
NoTime == 0
\* stop_prices / target_prices have no entry for the symbol
NoPrice == -1
\* a NaN of a MACD series (too little history): every comparison is false
NaN == 999999

StopPct == 98
TargetPct == 110
RiskPct == 2
MinAnchored == 10
Retries == 3

---------------------------------------------------------------------------
(* Python helpers *)

\* s[-k] of a series; HasIdx says whether it raises IndexError
HasIdx(s, k) == k <= Len(s)
Idx(s, k) == IF HasIdx(s, k) THEN s[Len(s) + 1 - k] ELSE NaN

\* a < b on floats: false when either is NaN
Lt(a, b) == a # NaN /\ b # NaN /\ a < b

\* round(num/den, 0) of a non-negative ratio.  Python rounds the double
\* nearest to the decimal value, so an exact tie falls to either side
\* depending on the binary representation: both neighbours are outcomes.
RoundSet(num, den) ==
    LET q == num \div den
        r == num % den
    IN  IF 2 * r < den THEN {q}
        ELSE IF 2 * r > den THEN {q + 1}
        ELSE {q, q + 1}

\* the first conjunct of an `and` chain that is false or raises decides it;
\* conj is a sequence of <<defined, value>>
RECURSIVE AndChain(_)
AndChain(conj) ==
    IF conj = <<>> THEN "true"
    ELSE IF ~Head(conj)[1] THEN "raise"
    ELSE IF ~Head(conj)[2] THEN "false"
    ELSE AndChain(Tail(conj))

---------------------------------------------------------------------------
(* The arguments of one invocation *)

\* minute_history and what the libraries derive from it, as the method
\* reads them.  close: the raw minute closes, oldest first (the last is
\* data.close); open, average: data.open, data.average; close5, open5,
\* vwap5: the resampled 5-minute closes, opens and df["average"]; macd,
\* macd_signal, macd_hist: the MACD triple; vwap_ok: add_daily_vwap's
\* result; a_len, a_vwap: len(a_vwap) and its last values; slope_min,
\* slope_a_vwap: the two get_series_trend slopes.  p is the latest close.
Bars(shape, p) ==
    LET falling == <<p + 2, p + 1, p>>
        rising  == <<p - 2, p - 1, p>>
        base == [close |-> rising, open |-> p - 1, average |-> p + 1,
                 close5 |-> rising, open5 |-> <<p - 3, p - 2, p - 1>>,
                 vwap5 |-> <<p, p, p>>,
                 macd |-> <<1, 2, 3>>, macd_signal |-> <<1, 1, 1>>,
                 macd_hist |-> <<0, 1, 2>>,
                 vwap_ok |-> TRUE,
                 a_len |-> 5, a_vwap |-> <<p + 1, p + 1>>,
                 slope_min |-> 1, slope_a_vwap |-> 1]
        trap == [base EXCEPT !.close = falling, !.open = p + 1,
                 !.close5 = falling, !.open5 = <<p + 3, p + 2, p + 1>>,
                 !.vwap5 = <<p + 3, p + 3, p + 3>>,
                 !.macd = <<-1, -2, -3>>, !.macd_signal = <<-1, -1, -2>>,
                 !.macd_hist = <<-1, -2, -3>>]
        conf == [base EXCEPT !.a_len = MinAnchored + 1,
                 !.a_vwap = <<p - 2, p - 1>>, !.slope_min = 2]
    IN  CASE shape = "above"    -> [base EXCEPT !.average = p - 1]
          [] shape = "below"    -> base
          [] shape = "trap"     -> trap
          [] shape = "bulltrap" -> [trap EXCEPT !.average = p - 1]
          [] shape = "dip"      -> [trap EXCEPT !.macd_hist = <<-1, -3, -3>>]
          [] shape = "early"    -> [trap EXCEPT !.macd = <<NaN, NaN, NaN>>,
                                      !.macd_signal = <<NaN, NaN, NaN>>,
                                      !.macd_hist = <<NaN, NaN, NaN>>]
          [] shape = "novwap"   -> [trap EXCEPT !.vwap_ok = FALSE]
          [] shape = "short5"   -> [trap EXCEPT !.close5 = <<p + 1, p>>,
                                      !.open5 = <<p + 2, p + 1>>,
                                      !.vwap5 = <<p + 3, p + 3>>]
          [] shape = "one5"     -> [trap EXCEPT !.close = <<p + 1, p>>,
                                      !.close5 = <<p>>, !.open5 = <<p + 1>>,
                                      !.vwap5 = <<p + 3>>]
          [] shape = "cross"    -> conf
          [] shape = "weak"     -> [conf EXCEPT !.slope_min = 1]
          [] shape = "young"    -> [conf EXCEPT !.a_len = MinAnchored]
          [] shape = "under"    -> [conf EXCEPT !.a_vwap = <<p - 2, p>>]

Shapes == {"above", "below", "trap", "bulltrap", "dip", "early", "novwap",
           "short5", "one5", "cross", "weak", "young", "under"}

\* latest closes, in mills: 0.06, 9.184, 50.00
Prices == {60, 9184, 50000}

\* portfolio_value argument (NoValue: None) and trading_api (absent: None;
\* otherwise the number of get_account() calls that raise ConnectionError
\* before one answers, and the value it answers)
NoValue == -1
PortfolioArgs ==
    {[portfolio_value |-> v, api |-> FALSE, fails |-> 0, account |-> 0] :
        v \in {10, 100000}}
    \cup {[portfolio_value |-> NoValue, api |-> FALSE, fails |-> 0, account |-> 0]}
    \cup {[portfolio_value |-> NoValue, api |-> TRUE, fails |-> f, account |-> 100000] :
        f \in {0, Retries}}

\* the bars and portfolio arguments of the invocations: every shape at the
\* mid price with a supplied portfolio value, the shapes that decide the
\* sticky flag, the exit and the bracket at every price, a confirmation
\* with every supplied portfolio value at every price and with every
\* account query at the mid price
DefaultPortfolio == [portfolio_value |-> 100000, api |-> FALSE, fails |-> 0,
                     account |-> 0]
Markets ==
    {<<shape, 9184, DefaultPortfolio>> : shape \in Shapes}
    \cup {<<shape, p, DefaultPortfolio>> :
             shape \in {"above", "bulltrap"}, p \in Prices}
    \cup {<<"cross", p, pa>> :
             p \in Prices, pa \in {q \in PortfolioArgs : q.portfolio_value # NoValue}}
    \cup {<<"cross", 9184, pa>> : pa \in PortfolioArgs}

\* position and last_used_strategy[symbol].name == self.name
Holdings == {<<0, FALSE>>, <<1, TRUE>>, <<2, TRUE>>, <<1, FALSE>>}

NoInv == [symbol |-> "A", shortable |-> FALSE, position |-> 0, last_self |-> FALSE,
          open_order |-> FALSE, buy_time |-> FALSE, sell_time |-> FALSE,
          now |-> NoTime, bars |-> Bars("below", 60),
          portfolio_value |-> NoValue, api |-> FALSE, fails |-> 0, account |-> 0]

---------------------------------------------------------------------------
(* The steps of run(), in the order of the source *)

NoSignal == [kind |-> "none", side |-> "", qty |-> 0, type |-> "",
             limit_price |-> 0, reasons |-> <<>>, error |-> ""]
BuyIntent(qty, price) == [NoSignal EXCEPT !.kind = "signal", !.side = "buy",
                          !.qty = qty, !.type = "limit", !.limit_price = price]
SellIntent(qty, reasons) == [NoSignal EXCEPT !.kind = "signal", !.side = "sell",
                             !.qty = qty, !.type = "market", !.reasons = reasons]
Raised(e) == [NoSignal EXCEPT !.kind = "raise", !.error = e]

\* data = minute_history.iloc[-1]
DataClose(a) == Idx(a.bars.close, 1)

\* mutation: the gate is missing
ShortableGateOff(a) == FALSE

\* if not shortable: return False, {}
ShortableGate(a) == ~a.shortable

\* mutation: the flag is assigned the comparison instead of being set
WasAboveRecomputed(was, a) == DataClose(a) > a.bars.average

\* if data.close > data.average: self.was_above_vwap[symbol] = True
WasAboveUpdate(was, a) ==
    IF DataClose(a) > a.bars.average THEN TRUE ELSE was

\* mutation: the position is not looked at
BuyEligibleAnyPosition(a, was) == a.buy_time /\ ~a.open_order /\ was

\* the condition of the buy path
BuyEligible(a, was) ==
    a.buy_time /\ a.position = 0 /\ ~a.open_order /\ was

\* mutation: a pending candidate does not block a new one
NotPendingIgnored(trap) == <<TRUE, TRUE>>

\* not self.potential_trap.get(symbol, False)
NotPending(trap) == <<TRUE, ~trap>>

\* mutation: only the latest 5-minute bucket is compared
CandidateConjunctsLatestBucket(a, trap) ==
    LET b == a.bars
        c5 == b.close5  v5 == b.vwap5  o5 == b.open5
        m == b.macd  sg == b.macd_signal  h == b.macd_hist  c == b.close
    IN  << NotPending(trap),
           <<HasIdx(c5, 1) /\ HasIdx(v5, 1), Lt(Idx(c5, 1), Idx(v5, 1))>>,
           <<HasIdx(o5, 1), Lt(Idx(c5, 1), Idx(o5, 1))>>,
           <<HasIdx(m, 1) /\ HasIdx(sg, 1),
             Lt(Idx(m, 1), Idx(sg, 1)) /\ Lt(Idx(sg, 1), 0)>>,
           <<TRUE, Lt(Idx(m, 1), 0)>>,
           <<HasIdx(h, 3),
             Lt(Idx(h, 1), Idx(h, 2)) /\ Lt(Idx(h, 2), Idx(h, 3))
                /\ Lt(Idx(h, 3), 0)>>,
           <<TRUE, DataClose(a) < b.open>>,
           <<HasIdx(c, 3),
             Lt(DataClose(a), Idx(c, 2)) /\ Lt(Idx(c, 2), Idx(c, 3))>> >>

\* the NONE -> CANDIDATE condition, conjunct by conjunct
CandidateConjuncts(a, trap) ==
    LET b == a.bars
        c5 == b.close5  v5 == b.vwap5  o5 == b.open5
        m == b.macd  sg == b.macd_signal  h == b.macd_hist  c == b.close
    IN  << NotPending(trap),
           <<HasIdx(c5, 1) /\ HasIdx(v5, 1), Lt(Idx(c5, 1), Idx(v5, 1))>>,
           <<HasIdx(c5, 2) /\ HasIdx(v5, 2), Lt(Idx(c5, 2), Idx(v5, 2))>>,
           <<HasIdx(c5, 3) /\ HasIdx(v5, 3), Lt(Idx(c5, 3), Idx(v5, 3))>>,
           <<HasIdx(o5, 1), Lt(Idx(c5, 1), Idx(o5, 1))>>,
           <<HasIdx(o5, 2), Lt(Idx(c5, 2), Idx(o5, 2))>>,
           <<HasIdx(o5, 3), Lt(Idx(c5, 3), Idx(o5, 3))>>,
           <<HasIdx(m, 1) /\ HasIdx(sg, 1),
             Lt(Idx(m, 1), Idx(sg, 1)) /\ Lt(Idx(sg, 1), 0)>>,
           <<TRUE, Lt(Idx(m, 1), 0)>>,
           <<HasIdx(h, 3),
             Lt(Idx(h, 1), Idx(h, 2)) /\ Lt(Idx(h, 2), Idx(h, 3))
                /\ Lt(Idx(h, 3), 0)>>,
           <<TRUE, DataClose(a) < b.open>>,
           <<HasIdx(c, 3),
             Lt(DataClose(a), Idx(c, 2)) /\ Lt(Idx(c, 2), Idx(c, 3))>> >>

Candidate(a, trap) == AndChain(CandidateConjuncts(a, trap))

\* mutation: the slopes are not compared
ConfirmedNoSlope(a) ==
    LET b == a.bars
    IN  /\ b.a_len > MinAnchored
        /\ Idx(b.close, 1) > Idx(b.a_vwap, 1)
        /\ Idx(b.close, 2) > Idx(b.a_vwap, 2)

\* the confirmation of a pending candidate
Confirmed(a) ==
    LET b == a.bars
    IN  /\ b.a_len > MinAnchored
        /\ Idx(b.close, 1) > Idx(b.a_vwap, 1)
        /\ Idx(b.close, 2) > Idx(b.a_vwap, 2)
        /\ b.slope_min > b.slope_a_vwap

\* mutation: the confirmation runs without a pending candidate
ToBuyUnanchored(st, a) == Confirmed(a)

\* to_buy: elif self.potential_trap.get(symbol, False), then the
\* confirmation
ToBuy(st, a) == st.trap /\ Confirmed(a)

\* stop_prices[symbol] = round(vwap_series[-1] * 0.98, 2), in cents
StopPrices(vwap) == RoundSet(vwap * StopPct, 1000)

\* target_prices[symbol] = round(vwap_series[-1] * 0.98 * 1.1, 2), in cents
TargetPrices(vwap) == RoundSet(vwap * StopPct * TargetPct, 100000)

\* the portfolio value the sizing uses: the argument, or get_account()'s
\* answer after at most Retries attempts; "none": return False, {};
\* "raise": neither is given
RECURSIVE Fetch(_, _, _)
Fetch(retry, fails, account) ==
    IF retry = 0 THEN 0
    ELSE IF fails = 0 THEN account
    ELSE Fetch(retry - 1, fails - 1, account)

\* mutation: without portfolio value and trading_api the method abstains
PortfolioValueAbstains(a) ==
    IF a.portfolio_value # NoValue
    THEN [kind |-> "value", value |-> a.portfolio_value]
    ELSE IF a.api
    THEN LET v == Fetch(Retries, a.fails, a.account)
         IN  IF v = 0 THEN [kind |-> "none", value |-> 0]
             ELSE [kind |-> "value", value |-> v]
    ELSE [kind |-> "none", value |-> 0]

PortfolioValue(a) ==
    IF a.portfolio_value # NoValue
    THEN [kind |-> "value", value |-> a.portfolio_value]
    ELSE IF a.api
    THEN LET v == Fetch(Retries, a.fails, a.account)
         IN  IF v = 0 THEN [kind |-> "none", value |-> 0]
             ELSE [kind |-> "value", value |-> v]
    ELSE [kind |-> "raise", value |-> 0]

\* mutation: a share count of 0 is kept
SharesToBuyNoMinimum(portfolio_value, close) ==
    (portfolio_value * RiskPct * 10) \div close

\* shares_to_buy = int(portfolio_value * 0.02 / data.close), at least 1;
\* close in mills
SharesToBuy(portfolio_value, close) ==
    LET shares == (portfolio_value * RiskPct * 10) \div close
    IN  IF shares = 0 THEN 1 ELSE shares

\* mutation: positions of other strategies are sold too
SellEligibleAnyStrategy(a) ==
    a.sell_time /\ a.position # 0 /\ ~a.open_order

\* the condition of the sell path
SellEligible(a) ==
    a.sell_time /\ a.position # 0 /\ a.last_self /\ ~a.open_order

\* mutation: the target is compared first
SellReasonsTargetFirst(close, stop, target) ==
    IF close >= target * 10 THEN <<"above target">>
    ELSE IF close <= stop * 10 THEN <<"stopped">>
    ELSE <<>>

\* sell_reasons; close in mills, stop and target in cents
SellReasons(close, stop, target) ==
    IF close <= stop * 10 THEN <<"stopped">>
    ELSE IF close >= target * 10 THEN <<"above target">>
    ELSE <<>>

---------------------------------------------------------------------------
(* run() as a whole: from the symbol's entries st = [was, trap, start,    *)
(* stop, target] and the arguments a to the entries it leaves and what it *)
(* returns or raises                                                      *)

\* the sell path and the final return False, {}
SellPath(st, a) ==
    IF SellEligible(a)
    THEN LET reasons == SellReasons(DataClose(a), st.stop, st.target)
         IN  IF reasons # <<>>
             THEN {[st |-> st, ret |-> SellIntent(a.position, reasons)]}
             ELSE {[st |-> st, ret |-> NoSignal]}
    ELSE {[st |-> st, ret |-> NoSignal]}

\* if to_buy: the bracket is stored, then the portfolio value is obtained,
\* then the order is sized
Entry(st, a) ==
    LET vwap == Idx(a.bars.vwap5, 1)
        pv == PortfolioValue(a)
    IN  { [st |-> [st EXCEPT !.stop = sp, !.target = tp],
           ret |-> CASE pv.kind = "raise" -> Raised("Exception")
                     [] pv.kind = "none" -> NoSignal
                     [] OTHER -> BuyIntent(SharesToBuy(pv.value, DataClose(a)),
                                           DataClose(a))] :
          sp \in StopPrices(vwap), tp \in TargetPrices(vwap) }

\* the NONE -> CANDIDATE transition
MarkCandidate(st, a) ==
    [st |-> [st EXCEPT !.trap = TRUE, !.start = a.now], ret |-> NoSignal]

\* the buy path, entered when BuyEligible
BuyPath(st, a) ==
    IF ~a.bars.vwap_ok THEN {[st |-> st, ret |-> NoSignal]}
    ELSE LET candidate == Candidate(a, st.trap)
         IN  IF candidate = "raise"
             THEN {[st |-> st, ret |-> Raised("IndexError")]}
             ELSE IF candidate = "true" THEN {MarkCandidate(st, a)}
             ELSE IF ToBuy(st, a) THEN Entry(st, a)
             ELSE SellPath(st, a)

\* mutation: the buy path is gated on the flag as the invocation found it
RunOutcomesStaleFlag(st, a) ==
    IF ShortableGate(a) THEN {[st |-> st, ret |-> NoSignal]}
    ELSE LET st1 == [st EXCEPT !.was = WasAboveUpdate(st.was, a)]
         IN  IF BuyEligible(a, st.was) THEN BuyPath(st1, a)
             ELSE SellPath(st1, a)

RunOutcomes(st, a) ==
    IF ShortableGate(a) THEN {[st |-> st, ret |-> NoSignal]}
    ELSE LET st1 == [st EXCEPT !.was = WasAboveUpdate(st.was, a)]
         IN  IF BuyEligible(a, st1.was) THEN BuyPath(st1, a)
             ELSE SellPath(st1, a)

---------------------------------------------------------------------------
(* The state machine *)

\* the five dictionaries, as one record of the symbol's entries
Entries(s) == [was |-> was_above_vwap[s], trap |-> potential_trap[s],
               start |-> trap_start_time[s], stop |-> stop_prices[s],
               target |-> target_prices[s]]

Snapshot == [was_above_vwap |-> was_above_vwap, potential_trap |-> potential_trap,
             trap_start_time |-> trap_start_time, stop_prices |-> stop_prices,
             target_prices |-> target_prices]

NoFirst == [ret |-> NoSignal, candidate |-> FALSE]

\* a coroutine of run(): where it is suspended (pc), its arguments, the
\* locals retry and portfolio_value of the account-query loop (the value
\* is args.account once a call answered), the get_account() calls made
\* (calls) and still to fail (fails_left), and its result
NoTask == [pc |-> "none", args |-> NoInv, retry |-> 0, calls |-> 0,
           fails_left |-> 0, ret |-> NoSignal]

Init ==
    /\ was_above_vwap = [s \in Symbols |-> FALSE]
    /\ potential_trap = [s \in Symbols |-> FALSE]
    /\ trap_start_time = [s \in Symbols |-> NoTime]
    /\ stop_prices = [s \in Symbols |-> NoPrice]
    /\ target_prices = [s \in Symbols |-> NoPrice]
    /\ entered = {}
    /\ clock = 0
    /\ pc = "idle"
    /\ inv = NoInv
    /\ pre = Snapshot
    /\ ret = NoSignal
    /\ again = FALSE
    /\ first = NoFirst
    /\ task = [s \in Symbols |-> NoTask]

\* the platform invokes run() for a symbol on a new bar.  entered holds the
\* symbols this strategy has returned a buy for: last_used_strategy names
\* this strategy only for a position that such a buy opened.
Call ==
    /\ pc = "idle"
    /\ clock < MaxTime
    /\ \E s \in Symbols, shortable, open_order, buy_time, sell_time \in BOOLEAN,
          h \in Holdings, m \in Markets :
          /\ h[2] => s \in entered
          /\ inv' = [symbol |-> s, shortable |-> shortable, position |-> h[1],
                     last_self |-> h[2], open_order |-> open_order,
                     buy_time |-> buy_time, sell_time |-> sell_time,
                     now |-> clock + 1, bars |-> Bars(m[1], m[2]),
                     portfolio_value |-> m[3].portfolio_value,
                     api |-> m[3].api, fails |-> m[3].fails,
                     account |-> m[3].account]
    /\ clock' = clock + 1
    /\ pc' = "called"
    /\ pre' = Snapshot
    /\ UNCHANGED <<was_above_vwap, potential_trap, trap_start_time,
                   stop_prices, target_prices, entered, ret, aux>>

\* run(symbol, ...) from its first line to its return or raise
Run ==
    /\ pc = "called"
    /\ \E o \in RunOutcomes(Entries(inv.symbol), inv) :
          /\ was_above_vwap' = [was_above_vwap EXCEPT ![inv.symbol] = o.st.was]
          /\ potential_trap' = [potential_trap EXCEPT ![inv.symbol] = o.st.trap]
          /\ trap_start_time' = [trap_start_time EXCEPT ![inv.symbol] = o.st.start]
          /\ stop_prices' = [stop_prices EXCEPT ![inv.symbol] = o.st.stop]
          /\ target_prices' = [target_prices EXCEPT ![inv.symbol] = o.st.target]
          /\ ret' = o.ret
          /\ entered' = IF o.ret.side = "buy" THEN entered \cup {inv.symbol}
                        ELSE entered
    /\ pc' = "returned"
    /\ UNCHANGED <<clock, inv, pre, aux>>

\* the caller takes the result
Return ==
    /\ pc = "returned"
    /\ pc' = "idle"
    /\ inv' = NoInv
    /\ ret' = NoSignal
    /\ pre' = Snapshot
    /\ again' = FALSE
    /\ first' = NoFirst
    /\ UNCHANGED <<was_above_vwap, potential_trap, trap_start_time,
                   stop_prices, target_prices, entered, clock, task>>

Next == Call \/ Run \/ Return

Spec == Init /\ [][Next]_vars

\* the platform invokes run() once more with the arguments of the
\* invocation that just ended (the same bars, flags, time, portfolio value
\* and account answers); explored for every invocation but the last one
\* MaxTime admits
Repeat ==
    /\ pc = "returned"
    /\ ~again
    /\ clock < MaxTime
    /\ again' = TRUE
    /\ first' = [ret |-> ret,
                 candidate |-> ~pre.potential_trap[inv.symbol]
                               /\ potential_trap[inv.symbol]]
    /\ pc' = "called"
    /\ pre' = Snapshot
    /\ UNCHANGED <<was_above_vwap, potential_trap, trap_start_time,
                   stop_prices, target_prices, entered, clock, inv, ret, task>>

NextRepeat == Next \/ Repeat

SpecRepeat == Init /\ [][NextRepeat]_vars

---------------------------------------------------------------------------
(* run() as a coroutine.  It can be suspended at `await is_buy_time`,     *)
(* at `await asyncio.sleep(0)` of the account-query loop and at           *)
(* `await is_sell_time`; between two of these points it runs alone.  One  *)
(* coroutine per symbol is in flight, and the event loop resumes them in  *)
(* any order.                                                              *)

\* mutation: the dictionary holds one value for all symbols
PutAll(map, s, v) == [x \in DOMAIN map |-> v]

\* self.<dict>[symbol] = v
Put(map, s, v) == [map EXCEPT ![s] = v]

\* the coroutine returns or raises
Finish(t, r) == [t EXCEPT !.pc = "done", !.ret = r]

\* the lines from the size of the order to the return of the buy intent
SizedBuy(portfolio_value, a) ==
    BuyIntent(SharesToBuy(portfolio_value, DataClose(a)), DataClose(a))

\* mutation: retry is not decremented
AfterSleepStuck(retry) == retry

\* retry -= 1
AfterSleep(retry) == retry - 1

\* one trip through the body of `while retry > 0`: get_account() answers
\* (break, then `if not portfolio_value`, then the order) or raises
\* ConnectionError, which takes the coroutine to the sleep
GetAccount(t, st, retry) ==
    LET a == t.args
        called == [t EXCEPT !.calls = @ + 1, !.retry = retry]
    IN  IF t.fails_left = 0
        THEN [t |-> Finish(called, IF a.account = 0 THEN NoSignal
                                   ELSE SizedBuy(a.account, a)),
              st |-> st]
        ELSE [t |-> [called EXCEPT !.fails_left = @ - 1, !.pc = "sleep"],
              st |-> st]

\* from the first line to `await is_buy_time`
StartOutcomes(t, st) ==
    LET a == t.args
    IN  IF ShortableGate(a) THEN {[t |-> Finish(t, NoSignal), st |-> st]}
        ELSE {[t |-> [t EXCEPT !.pc = "buy_time"],
               st |-> [st EXCEPT !.was = WasAboveUpdate(st.was, a)]]}

\* from the answer of is_buy_time to a return, a raise, the sleep of the
\* account-query loop or `await is_sell_time`
BuyWindowOutcomes(t, st) ==
    LET a == t.args
        vwap == Idx(a.bars.vwap5, 1)
        tosell == {[t |-> [t EXCEPT !.pc = "sell_time"], st |-> st]}
    IN  IF ~BuyEligible(a, st.was) THEN tosell
        ELSE IF ~a.bars.vwap_ok THEN {[t |-> Finish(t, NoSignal), st |-> st]}
        ELSE LET candidate == Candidate(a, st.trap)
             IN  IF candidate = "raise"
                 THEN {[t |-> Finish(t, Raised("IndexError")), st |-> st]}
                 ELSE IF candidate = "true"
                 THEN {[t |-> Finish(t, NoSignal), st |-> MarkCandidate(st, a).st]}
                 ELSE IF ~ToBuy(st, a) THEN tosell
                 ELSE { LET st2 == [st EXCEPT !.stop = sp, !.target = tp]
                        IN  IF a.portfolio_value # NoValue
                            THEN [t |-> Finish(t, SizedBuy(a.portfolio_value, a)),
                                  st |-> st2]
                            ELSE IF a.api THEN GetAccount(t, st2, Retries)
                            ELSE [t |-> Finish(t, Raised("Exception")), st |-> st2] :
                        sp \in StopPrices(vwap), tp \in TargetPrices(vwap) }

\* from the end of the sleep to a return or the next sleep
WakeOutcomes(t, st) ==
    LET retry == AfterSleep(t.retry)
    IN  IF retry > 0 THEN {GetAccount(t, st, retry)}
        ELSE {[t |-> Finish([t EXCEPT !.retry = retry], NoSignal), st |-> st]}

\* from the answer of is_sell_time to the return
SellWindowOutcomes(t, st) ==
    {[t |-> Finish(t, o.ret), st |-> o.st] : o \in SellPath(st, t.args)}

\* the coroutine of symbol s runs to its next suspension point
Resume(s, outcomes) ==
    \E o \in outcomes :
        /\ task' = [task EXCEPT ![s] = o.t]
        /\ was_above_vwap' = Put(was_above_vwap, s, o.st.was)
        /\ potential_trap' = Put(potential_trap, s, o.st.trap)
        /\ trap_start_time' = Put(trap_start_time, s, o.st.start)
        /\ stop_prices' = Put(stop_prices, s, o.st.stop)
        /\ target_prices' = Put(target_prices, s, o.st.target)
        /\ again' = again
        /\ first' = first
        /\ UNCHANGED <<entered, clock, pc, inv, pre, ret>>

TaskStart ==
    \E s \in Symbols :
        /\ task[s].pc = "start"
        /\ Resume(s, StartOutcomes(task[s], Entries(s)))

TaskBuyWindow ==
    \E s \in Symbols :
        /\ task[s].pc = "buy_time"
        /\ Resume(s, BuyWindowOutcomes(task[s], Entries(s)))

TaskWake ==
    \E s \in Symbols :
        /\ task[s].pc = "sleep"
        /\ Resume(s, WakeOutcomes(task[s], Entries(s)))

TaskSellWindow ==
    \E s \in Symbols :
        /\ task[s].pc = "sell_time"
        /\ Resume(s, SellWindowOutcomes(task[s], Entries(s)))

NextTasks == TaskStart \/ TaskBuyWindow \/ TaskWake \/ TaskSellWindow

\* get_account() raises ConnectionError up to MaxFails times in a row
MaxFails == 4

\* entries of one symbol that invocations of run() leave behind: none yet;
\* the sticky flag alone; a pending candidate of time 1; a position entered
\* on a vwap of 9.184 (stop 9.00, target 9.90)
FreshEntry == [was |-> FALSE, trap |-> FALSE, start |-> NoTime,
               stop |-> NoPrice, target |-> NoPrice]
PendingEntry == [was |-> TRUE, trap |-> TRUE, start |-> 1,
                 stop |-> NoPrice, target |-> NoPrice]
EnteredEntry == [PendingEntry EXCEPT !.stop = 900, !.target = 990]
KnownEntries == {FreshEntry, [FreshEntry EXCEPT !.was = TRUE],
                 PendingEntry, EnteredEntry}

\* shortable, is_buy_time, is_sell_time
TaskFlags == {<<TRUE, TRUE, TRUE>>, <<TRUE, FALSE, TRUE>>, <<FALSE, TRUE, TRUE>>}

TaskHoldings == {<<0, FALSE>>, <<1, TRUE>>}

\* the bars and portfolio arguments of overlapping invocations: a
\* candidate, a short 5-minute series, a close above the target, and a
\* confirmation with the portfolio value supplied, missing, or queried
\* from an account that fails 0..MaxFails times
TaskMarkets ==
    {<<shape, 9184, DefaultPortfolio>> : shape \in {"bulltrap", "short5"}}
    \cup {<<"above", 50000, DefaultPortfolio>>}
    \cup {<<"cross", 9184, pa>> :
             pa \in {DefaultPortfolio,
                     [DefaultPortfolio EXCEPT !.portfolio_value = NoValue]}}
    \cup {<<"cross", 9184, [portfolio_value |-> NoValue, api |-> TRUE,
                            fails |-> f, account |-> 100000]>> :
             f \in 0..MaxFails}

\* two invocations of time 2, one per symbol, both created and neither
\* started, over dictionaries earlier invocations left
InitTasks ==
    \E e \in [Symbols -> KnownEntries], f \in [Symbols -> TaskFlags],
       h \in [Symbols -> TaskHoldings], m \in [Symbols -> TaskMarkets] :
        /\ \A s \in Symbols : h[s][2] => e[s] = EnteredEntry
        /\ was_above_vwap = [s \in Symbols |-> e[s].was]
        /\ potential_trap = [s \in Symbols |-> e[s].trap]
        /\ trap_start_time = [s \in Symbols |-> e[s].start]
        /\ stop_prices = [s \in Symbols |-> e[s].stop]
        /\ target_prices = [s \in Symbols |-> e[s].target]
        /\ entered = {s \in Symbols : e[s] = EnteredEntry}
        /\ clock = 2
        /\ pc = "idle"
        /\ inv = NoInv
        /\ pre = [was_above_vwap |-> [s \in Symbols |-> e[s].was],
                  potential_trap |-> [s \in Symbols |-> e[s].trap],
                  trap_start_time |-> [s \in Symbols |-> e[s].start],
                  stop_prices |-> [s \in Symbols |-> e[s].stop],
                  target_prices |-> [s \in Symbols |-> e[s].target]]
        /\ ret = NoSignal
        /\ again = FALSE
        /\ first = NoFirst
        /\ task = [s \in Symbols |->
                     [pc |-> "start",
                      args |-> [symbol |-> s, shortable |-> f[s][1],
                                position |-> h[s][1], last_self |-> h[s][2],
                                open_order |-> FALSE, buy_time |-> f[s][2],
                                sell_time |-> f[s][3], now |-> 2,
                                bars |-> Bars(m[s][1], m[s][2]),
                                portfolio_value |-> m[s][3].portfolio_value,
                                api |-> m[s][3].api, fails |-> m[s][3].fails,
                                account |-> m[s][3].account],
                      retry |-> 0, calls |-> 0, fails_left |-> m[s][3].fails,
                      ret |-> NoSignal]]

SpecTasks == InitTasks /\ [][NextTasks]_vars

---------------------------------------------------------------------------
(* Properties.  In a state with pc = "returned", inv holds the arguments *)
(* of the invocation that just ended, pre the dictionaries as it found   *)
(* them, ret what it returned or raised.                                  *)

Returned == pc = "returned"
Sym == inv.symbol
Bought == Returned /\ ret.kind = "signal" /\ ret.side = "buy"
Sold == Returned /\ ret.kind = "signal" /\ ret.side = "sell"
\* the invocation took NONE -> CANDIDATE
TookCandidate == Returned /\ ~pre.potential_trap[Sym] /\ potential_trap[Sym]
\* the rest of the candidate pattern holds on the invocation's bars
PatternHolds == Candidate(inv, FALSE) = "true"

\* C1: an invocation that starts with potential_trap[symbol] true leaves
\* trap_start_time[symbol] as it was: the NONE -> CANDIDATE write happens
\* only from potential_trap false.
C1_SingleCandidate ==
    \A s \in Symbols :
        pre.potential_trap[s] => trap_start_time[s] = pre.trap_start_time[s]

\* a pending candidate meets the full pattern again on the buy path
C1_Witness ==
    /\ Returned /\ pre.potential_trap[Sym]
    /\ inv.shortable /\ BuyEligible(inv, was_above_vwap[Sym])
    /\ inv.bars.vwap_ok /\ PatternHolds
    /\ trap_start_time[Sym] < inv.now

\* C2: after run() emits a buy for a symbol, potential_trap[symbol] is
\* false (the state machine is back at NONE).
C2_BackToNoneAfterBuy == Bought => ~potential_trap[Sym]

\* what the code does instead: no step ever takes potential_trap[symbol]
\* from true to false, after a buy or otherwise
PendingForever ==
    [][\A s \in Symbols : potential_trap[s] => potential_trap'[s]]_vars

\* C3: once was_above_vwap[symbol] is true, every step leaves it true.
C3_StickyFlag ==
    [][\A s \in Symbols : was_above_vwap[s] => was_above_vwap'[s]]_vars

\* the flag was set and the invocation's latest close is not above average
C3_Witness ==
    /\ Returned /\ inv.shortable /\ pre.was_above_vwap[Sym]
    /\ DataClose(inv) <= inv.bars.average
    /\ was_above_vwap[Sym]

\* C4: whenever run() returns a buy, target_prices[symbol] >
\* stop_prices[symbol] > 0.
C4_BracketOrdering ==
    Bought => target_prices[Sym] > stop_prices[Sym] /\ stop_prices[Sym] > 0

\* the portfolio value the sizing of the invocation used
UsedPortfolioValue ==
    IF inv.portfolio_value # NoValue THEN inv.portfolio_value ELSE inv.account

\* C5: a buy's quantity is max(1, floor(portfolio_value * 0.02 / close)),
\* so at least 1; its type is limit and its limit price the latest close.
\* (close is in mills: portfolio_value * 0.02 / close = 20 * pv / mills.)
C5_PositionSizing ==
    Bought =>
        LET n == 20 * UsedPortfolioValue
            c == DataClose(inv)
        IN  /\ ret.qty >= 1
            /\ \/ ret.qty * c <= n /\ n < (ret.qty + 1) * c
               \/ n < c /\ ret.qty = 1
            /\ ret.type = "limit"
            /\ ret.limit_price = c

\* a buy whose computed share count is 0 and is raised to 1
C5_Witness ==
    Bought /\ 20 * UsedPortfolioValue < DataClose(inv) /\ ret.qty = 1

\* the sell path's conditions as the claim lists them
SellWindowOpen ==
    inv.sell_time /\ inv.position # 0 /\ inv.last_self /\ ~inv.open_order

\* what the exit rule prescribes from the bracket the invocation found
ExitRuleFollowed ==
    LET c == DataClose(inv)
        stop == 10 * pre.stop_prices[Sym]
        target == 10 * pre.target_prices[Sym]
    IN  IF c <= stop
        THEN ret = SellIntent(inv.position, <<"stopped">>)
        ELSE IF c >= target
        THEN ret = SellIntent(inv.position, <<"above target">>)
        ELSE ret = NoSignal

\* C6 as stated: whenever the sell path's conditions hold, the exit rule
\* decides the result.
C6_ExitDecisionAsStated == Returned /\ SellWindowOpen => ExitRuleFollowed

\* C6, amended: whenever the symbol is shortable and the sell path's
\* conditions hold, the result is a sell with reasons <<"stopped">> if
\* close <= stop, else a sell with <<"above target">> if close >= target,
\* else no signal.
C6_ExitDecision ==
    Returned /\ inv.shortable /\ SellWindowOpen => ExitRuleFollowed

\* both comparisons hold and only "stopped" is reported
C6_Witness ==
    /\ Returned /\ inv.shortable /\ SellWindowOpen
    /\ DataClose(inv) <= 10 * pre.stop_prices[Sym]
    /\ DataClose(inv) >= 10 * pre.target_prices[Sym]
    /\ ret.reasons = <<"stopped">>

\* C7: an invocation with shortable false returns no signal and leaves
\* every dictionary as it was.
C7_ShortabilityGate ==
    Returned /\ ~inv.shortable => ret = NoSignal /\ Snapshot = pre

\* not shortable while the stop of an open position is hit and the latest
\* close is above average for the first time
C7_Witness ==
    /\ Returned /\ ~inv.shortable /\ SellWindowOpen
    /\ DataClose(inv) <= 10 * stop_prices[Sym]
    /\ DataClose(inv) > inv.bars.average
    /\ ret = NoSignal

\* C8: a buy, or the NONE -> CANDIDATE transition, happens only in an
\* invocation with shortable true, no position, no open order, inside the
\* buy window, and with was_above_vwap[symbol] true when it ends.
C8_BuyGating ==
    Bought \/ TookCandidate =>
        /\ inv.shortable /\ inv.position = 0 /\ ~inv.open_order
        /\ inv.buy_time /\ was_above_vwap[Sym]

\* the candidate is taken by the invocation that sets the sticky flag
C8_Witness == TookCandidate /\ ~pre.was_above_vwap[Sym]

\* C9: a sell happens only with a nonzero position opened by this
\* strategy, no open order, inside the sell window; it is a market order
\* for the whole position.
C9_SellGating ==
    Sold =>
        /\ inv.position # 0 /\ inv.last_self /\ ~inv.open_order
        /\ inv.sell_time
        /\ ret.type = "market" /\ ret.qty = inv.position

\* a sell of a position of two shares
C9_Witness == Sold /\ inv.position = 2 /\ ret.qty = 2

\* C10: the invocation that takes NONE -> CANDIDATE stores the current
\* time as trap_start_time[symbol] and returns no signal; a buy comes only
\* from an invocation that found potential_trap[symbol] true.
C10_CandidateBeforeBuy ==
    /\ TookCandidate => trap_start_time[Sym] = inv.now /\ ret = NoSignal
    /\ Bought => pre.potential_trap[Sym] /\ pre.trap_start_time[Sym] < inv.now

\* a buy anchored at a candidate an earlier invocation recognised
C10_Witness ==
    Bought /\ pre.potential_trap[Sym] /\ trap_start_time[Sym] < inv.now

\* the invocation got as far as `if to_buy:` with to_buy true
ReachedEntry ==
    /\ Returned /\ inv.shortable
    /\ inv.buy_time /\ inv.position = 0 /\ ~inv.open_order
    /\ was_above_vwap[Sym] /\ inv.bars.vwap_ok
    /\ pre.potential_trap[Sym]
    /\ inv.bars.a_len > MinAnchored
    /\ Idx(inv.bars.close, 1) > Idx(inv.bars.a_vwap, 1)
    /\ Idx(inv.bars.close, 2) > Idx(inv.bars.a_vwap, 2)
    /\ inv.bars.slope_min > inv.bars.slope_a_vwap

ConfigError == Returned /\ ret.kind = "raise" /\ ret.error = "Exception"

\* C12: a confirmed trap that reaches the buy path with neither a
\* portfolio value nor a trading_api ends in the raised Exception, not in a
\* buy nor in a no-signal return; and the Exception is raised on no other
\* path.
C12_FatalConfigurationError ==
    ConfigError <=>
        ReachedEntry /\ inv.portfolio_value = NoValue /\ ~inv.api

\* a confirmed trap without portfolio value and trading_api raises
C12_Witness ==
    ConfigError /\ inv.portfolio_value = NoValue /\ ~inv.api /\ ~Bought

\* fewer than 3 resampled 5-minute buckets
FewBuckets == Len(inv.bars.close5) < 3

\* C13: with fewer than 3 resampled 5-minute buckets the invocation leaves
\* potential_trap[symbol] and trap_start_time[symbol] as they were.
C13_NoCandidateOnShortHistory ==
    Returned /\ FewBuckets =>
        /\ potential_trap[Sym] = pre.potential_trap[Sym]
        /\ trap_start_time[Sym] = pre.trap_start_time[Sym]

\* no candidate pending, the buy path is open and every bucket there is
\* lies below vwap and below its open
C13_Witness ==
    /\ Returned /\ FewBuckets /\ ~pre.potential_trap[Sym]
    /\ inv.shortable /\ BuyEligible(inv, was_above_vwap[Sym])
    /\ inv.bars.vwap_ok
    /\ \A k \in 1..Len(inv.bars.close5) :
          /\ inv.bars.close5[k] < inv.bars.vwap5[k]
          /\ inv.bars.close5[k] < inv.bars.open5[k]
    /\ ~potential_trap[Sym]

\* C14: an invocation with fewer than 3 resampled 5-minute buckets or fewer
\* than 3 raw minute bars returns no signal; it does not raise.
C14_AbstentionIsNoError ==
    Returned /\ (FewBuckets \/ Len(inv.bars.close) < 3) => ret = NoSignal

\* the confirmation of the invocation fails for one of the three reasons
FailedConfirmation ==
    \/ inv.bars.a_len <= MinAnchored
    \/ ~(Idx(inv.bars.close, 1) > Idx(inv.bars.a_vwap, 1))
    \/ ~(Idx(inv.bars.close, 2) > Idx(inv.bars.a_vwap, 2))
    \/ ~(inv.bars.slope_min > inv.bars.slope_a_vwap)

\* C17: an invocation that finds potential_trap[symbol] true and whose
\* confirmation fails leaves potential_trap[symbol] true and
\* trap_start_time[symbol] unchanged and emits no buy.
C17_NoDemotion ==
    Returned /\ pre.potential_trap[Sym] /\ FailedConfirmation =>
        /\ potential_trap[Sym]
        /\ trap_start_time[Sym] = pre.trap_start_time[Sym]
        /\ ~Bought

\* the confirmation is evaluated and fails on the slope alone
C17_Witness ==
    /\ Returned /\ pre.potential_trap[Sym]
    /\ inv.shortable /\ BuyEligible(inv, was_above_vwap[Sym])
    /\ inv.bars.vwap_ok
    /\ inv.bars.a_len > MinAnchored
    /\ Idx(inv.bars.close, 1) > Idx(inv.bars.a_vwap, 1)
    /\ Idx(inv.bars.close, 2) > Idx(inv.bars.a_vwap, 2)
    /\ inv.bars.slope_min <= inv.bars.slope_a_vwap
    /\ potential_trap[Sym] /\ ret = NoSignal

\* C18: stop_prices[symbol] and target_prices[symbol] change only in an
\* invocation that returns a buy; an invocation that returns no signal or
\* raises leaves both as they were.
C18_BracketOnlyOnEntry ==
    Returned /\ ~Bought =>
        /\ stop_prices = pre.stop_prices
        /\ target_prices = pre.target_prices

\* C19: an invocation with a nonzero position leaves stop_prices,
\* target_prices, potential_trap and trap_start_time as they were.
C19_FrozenWhileOpen ==
    Returned /\ inv.position # 0 =>
        /\ stop_prices = pre.stop_prices
        /\ target_prices = pre.target_prices
        /\ potential_trap = pre.potential_trap
        /\ trap_start_time = pre.trap_start_time

\* a position is open while the bars would confirm the pending candidate
\* inside the buy window, and the stored bracket decides the exit
C19_Witness ==
    /\ Returned /\ inv.position # 0 /\ inv.shortable
    /\ inv.buy_time /\ ~inv.open_order /\ pre.potential_trap[Sym]
    /\ ~FailedConfirmation
    /\ Sold /\ stop_prices[Sym] = pre.stop_prices[Sym]

\* C15: when an invocation returned no signal without taking NONE ->
\* CANDIDATE, the invocation that repeats it with identical arguments
\* returns no signal and leaves every dictionary as it found it.
C15_IdempotentAbstention ==
    Returned /\ again /\ first.ret = NoSignal /\ ~first.candidate =>
        ret = NoSignal /\ Snapshot = pre

\* the repeated abstention is one that stored a bracket and then gave up
\* on the account query
C15_Witness ==
    /\ Returned /\ again /\ first.ret = NoSignal /\ ~first.candidate
    /\ ReachedEntry /\ inv.portfolio_value = NoValue
    /\ stop_prices[Sym] # NoPrice
    /\ ret = NoSignal

---------------------------------------------------------------------------
(* Properties of the coroutines.  pre holds the dictionaries as the two   *)
(* invocations found them.                                                 *)

AllDone == \A s \in Symbols : task[s].pc = "done"
\* the coroutine went into the account-query loop
Queried(s) == task[s].calls > 0

\* C11: the account query makes at most Retries (3) attempts, the first
\* answer ends it, the loop always ends (a sleeping coroutine holds
\* 1 <= retry <= Retries, which falls with every further attempt, and a
\* coroutine that is not done can always be resumed), and when every
\* attempt has failed the invocation returns no signal and raises nothing
C11_BoundedFetch ==
    /\ \A s \in Symbols :
        LET t == task[s]
        IN  /\ t.calls <= Retries
            /\ t.pc = "sleep" =>
                  /\ t.retry \in 1..Retries
                  /\ t.calls = Retries - t.retry + 1
            /\ t.pc = "done" /\ Queried(s) =>
                  IF t.args.fails < Retries
                  THEN t.calls = t.args.fails + 1 /\ t.ret.side = "buy"
                  ELSE t.calls = Retries /\ t.ret = NoSignal
    /\ (\E s \in Symbols : task[s].pc \in {"start", "buy_time", "sleep", "sell_time"})
          => ENABLED NextTasks

\* an invocation whose every attempt failed has returned
C11_Witness ==
    \E s \in Symbols :
        /\ task[s].pc = "done"
        /\ task[s].args.fails > Retries
        /\ task[s].calls = Retries
        /\ task[s].ret = NoSignal

\* the symbol's entries in a snapshot of the dictionaries
EntriesOf(maps, s) ==
    [was |-> maps.was_above_vwap[s], trap |-> maps.potential_trap[s],
     start |-> maps.trap_start_time[s], stop |-> maps.stop_prices[s],
     target |-> maps.target_prices[s]]

\* run(s, ...) executed alone on the dictionaries maps
Alone(maps, s, a) ==
    { [maps |-> [was_above_vwap |-> Put(maps.was_above_vwap, s, o.st.was),
                 potential_trap |-> Put(maps.potential_trap, s, o.st.trap),
                 trap_start_time |-> Put(maps.trap_start_time, s, o.st.start),
                 stop_prices |-> Put(maps.stop_prices, s, o.st.stop),
                 target_prices |-> Put(maps.target_prices, s, o.st.target)],
       ret |-> o.ret] :
      o \in RunOutcomes(EntriesOf(maps, s), a) }

\* C16: an invocation for one symbol leaves the entries of the other
\* symbol alone: a coroutine that has not started finds its symbol's
\* entries as they were, and when both coroutines are done, however they
\* were interleaved, the dictionaries and both results are those of
\* running the two invocations one after the other, in either order
C16_CrossSymbolIndependence ==
    /\ \A s \in Symbols :
          task[s].pc = "start" => Entries(s) = EntriesOf(pre, s)
    /\ AllDone =>
          \A s1 \in Symbols : \A s2 \in Symbols \ {s1} :
              \E o1 \in Alone(pre, s1, task[s1].args) :
                  \E o2 \in Alone(o1.maps, s2, task[s2].args) :
                      /\ o2.maps = Snapshot
                      /\ o1.ret = task[s1].ret
                      /\ o2.ret = task[s2].ret

\* both invocations wrote their symbol's entries, one of them across the
\* sleeps of a failing account query
C16_Witness ==
    /\ AllDone
    /\ \A s \in Symbols : Entries(s) # EntriesOf(pre, s)
    /\ \E s \in Symbols : task[s].calls = Retries /\ task[s].ret.side = "buy"

====
